---- MODULE Spec2Model ----
(***************************************************************************)
(* State-machine model of autonomous_defense_firm.knowledge_base           *)
(* (class KnowledgeBase): the in-memory record collections, their          *)
(* create/update/delete operations with per-kind validators, the provider  *)
(* (LLM) configurations with their default flag, and the JSON backup file  *)
(* written by save_to_file and read by load_from_file; of the ethical      *)
(* filter (ethical_filter.check_ethics), the provider router               *)
(* (llm_manager.run_llm_query), the audit logger, the repository layer,    *)
(* the profiles, the statutes and cases with the documents that mirror     *)
(* them, set_default_llm under concurrent callers, and the TrainingManager *)
(* (training.py).                                                          *)
(*                                                                         *)
(* A Python dict is a function from field names (strings) to values; a     *)
(* Python list is a sequence.  Field values are strings, except            *)
(* 'is_default', which is a boolean.  None is the string NoneVal.          *)
(***************************************************************************)
EXTENDS Integers, Sequences, FiniteSets, TLC

VARIABLES
    kb,                 \* the KnowledgeBase object: attribute name -> list of dicts
    active_profile_id,  \* KnowledgeBase.active_profile_id
    uuid_count,         \* how many uuid.uuid4() values have been drawn so far
    backup_file,        \* the file save_to_file writes and load_from_file reads
    ret,                \* the last call: what was called, with what, and its outcome
    deleted_ids,        \* history: the <<collection, id>> pairs delete_* calls removed
    audit_log,          \* the messages logged by the audit logger, oldest first
    threads,            \* for each thread, the call it is running and where it stands in it
    tm                  \* the TrainingManager object: models, training_data, model_versions

vars == <<kb, active_profile_id, uuid_count, backup_file, ret, deleted_ids, audit_log,
          threads, tm>>

(***************************************************************************)
(* Bounds.                                                                 *)
(***************************************************************************)
\* uuid.uuid4() is called at most MaxIds times in a behaviour.
MaxIds == 3

(***************************************************************************)
(* Python dict and list helpers.                                           *)
(***************************************************************************)
NoneVal == "<None>"

EmptyDict == <<>>

\* d.get(k)
Get(d, k) == IF k \in DOMAIN d THEN d[k] ELSE NoneVal

\* {**d, **u}, and d.update(u)
Merge(d, u) == [k \in (DOMAIN d) \cup (DOMAIN u) |-> IF k \in DOMAIN u THEN u[k] ELSE d[k]]

\* d[k] = v
Put(d, k, v) == [x \in (DOMAIN d) \cup {k} |-> IF x = k THEN v ELSE d[x]]

\* `not d.get(k)` is false: the field is present and is a non-empty string
Truthy(d, k) == k \in DOMAIN d /\ d[k] # "" /\ d[k] # NoneVal

\* for i, x in enumerate(lst): if x.get('id') == the_id: ...   (first match, 0 if none)
IndexOfId(lst, the_id) ==
    IF \E i \in 1..Len(lst) : Get(lst[i], "id") = the_id
    THEN CHOOSE i \in 1..Len(lst) :
            /\ Get(lst[i], "id") = the_id
            /\ \A j \in 1..(i - 1) : Get(lst[j], "id") # the_id
    ELSE 0

\* del lst[i]
DelAt(lst, i) == [j \in 1..(Len(lst) - 1) |-> IF j < i THEN lst[j] ELSE lst[j + 1]]

\* the ids carried by the dicts of a list
IdsOf(lst) == {Get(lst[i], "id") : i \in 1..Len(lst)}

\* str(uuid.uuid4()): a value never returned before
UuidPool == <<"u1", "u2", "u3", "u4", "u5", "u6">>

uuid4(n) == UuidPool[n + 1]

(***************************************************************************)
(* The attributes of a KnowledgeBase.                                      *)
(***************************************************************************)
\* the lists KnowledgeBase.__init__ creates
InitAttrs ==
    {"primary_sources", "secondary_sources", "tertiary_sources", "documents",
     "statutes", "cases", "clients", "case_files", "legal_research", "contracts",
     "internal_docs", "calendar_events", "notes", "feedback", "ethics_records",
     "financial_records", "communication_logs", "templates", "external_data", "llms"}

\* the lists created on first use (hasattr guards); an absent attribute reads as []
LazyAttrs == {"users", "profiles", "ethical_guideline_records"}

Attrs == InitAttrs \cup LazyAttrs

\* KnowledgeBase(): every list empty
NewKnowledgeBase == [a \in Attrs |-> <<>>]

\* self.__init__() on an existing object: resets what __init__ assigns, nothing else
Reinit(k) == [a \in Attrs |-> IF a \in InitAttrs THEN <<>> ELSE k[a]]

(***************************************************************************)
(* The record of the last call.                                            *)
(***************************************************************************)
Call(verb, coll, id, arg, exc, val, ok) ==
    [verb |-> verb, coll |-> coll, id |-> id, arg |-> arg,
     tags |-> <<NoneVal, NoneVal>>, exc |-> exc, val |-> val, ok |-> ok]

NoCall == Call("none", "none", NoneVal, EmptyDict, "none", EmptyDict, FALSE)

(***************************************************************************)
(* Threads calling into one KnowledgeBase, and the TrainingManager.        *)
(***************************************************************************)
Threads == {"t1", "t2"}

\* a thread that is in no call
IdleThread == [op |-> "idle", llm_id |-> NoneVal, i |-> 0, found |-> FALSE]

NoThreads == [t \in Threads |-> IdleThread]

\* TrainingManager(kb): no model, no training example, no version
NewTrainingManager == [models |-> EmptyDict, training_data |-> <<>>, model_versions |-> EmptyDict]

(***************************************************************************)
(* Ethical tagging support.                                                *)
(***************************************************************************)
_add_ethics_fields(data, ethical_tags, ethical_guideline_ids) ==
    LET d1 == IF ethical_tags # NoneVal THEN Put(data, "ethical_tags", ethical_tags) ELSE data
    IN  IF ethical_guideline_ids # NoneVal
        THEN Put(d1, "ethical_guideline_ids", ethical_guideline_ids)
        ELSE d1

\* (ethical_tags, ethical_guideline_ids) pairs the callers pass
EthicsArgs == {<<NoneVal, NoneVal>>, <<"privileged", "g1">>}

(***************************************************************************)
(* Generic documents.                                                      *)
(***************************************************************************)
\* TRUE when validate_document returns, FALSE when it raises ValueError
validate_document(doc) == "title" \in DOMAIN doc /\ "text" \in DOMAIN doc

\* create_document on store k with n uuids drawn: the store, the uuid count,
\* the exception and the returned dict
create_document_on(k, n, doc, ethical_tags, ethical_guideline_ids) ==
    IF ~validate_document(doc)
    THEN [kb |-> k, n |-> n, exc |-> "ValueError", val |-> EmptyDict]
    ELSE LET d == Put(_add_ethics_fields(doc, ethical_tags, ethical_guideline_ids),
                      "id", uuid4(n))
         IN  [kb |-> [k EXCEPT !.documents = Append(@, d)], n |-> n + 1,
              exc |-> "none", val |-> d]

\* the effect of a create_* call whose outcome is r, called with payload arg
Created(coll, arg, tags, r) ==
    /\ r.n <= MaxIds
    /\ kb' = r.kb
    /\ uuid_count' = r.n
    /\ ret' = [Call("create", coll, NoneVal, arg, r.exc, r.val, r.exc = "none")
                 EXCEPT !.tags = tags]
    /\ UNCHANGED <<active_profile_id, backup_file, deleted_ids, audit_log, threads, tm>>

\* a call that returns a boolean and leaves the store as k2
Returned(verb, coll, id, arg, k2, exc, ok) ==
    /\ kb' = k2
    /\ ret' = Call(verb, coll, id, arg, exc, EmptyDict, ok)
    /\ deleted_ids' = IF verb = "delete" /\ ok
                      THEN deleted_ids \cup {<<coll, id>>} ELSE deleted_ids
    /\ UNCHANGED <<active_profile_id, uuid_count, backup_file, audit_log, threads, tm>>

create_document(doc, ethical_tags, ethical_guideline_ids) ==
    Created("documents", doc, <<ethical_tags, ethical_guideline_ids>>,
            create_document_on(kb, uuid_count, doc, ethical_tags, ethical_guideline_ids))

read_document(k, doc_id) ==
    LET i == IndexOfId(k.documents, doc_id)
    IN  IF i = 0 THEN EmptyDict ELSE k.documents[i]

update_document(doc_id, updates) ==
    LET i == IndexOfId(kb.documents, doc_id)
    IN  IF i = 0
        THEN Returned("update", "documents", doc_id, updates, kb, "none", FALSE)
        ELSE IF ~validate_document(Merge(kb.documents[i], updates))
        THEN Returned("update", "documents", doc_id, updates, kb, "ValueError", FALSE)
        ELSE Returned("update", "documents", doc_id, updates,
                      [kb EXCEPT !.documents[i] = Merge(@, updates)], "none", TRUE)

\* removal by moving the last document into the freed position
delete_document_swap_remove(doc_id) ==
    LET i == IndexOfId(kb.documents, doc_id)
        n == Len(kb.documents)
    IN  IF i = 0
        THEN Returned("delete", "documents", doc_id, EmptyDict, kb, "none", FALSE)
        ELSE Returned("delete", "documents", doc_id, EmptyDict,
                      [kb EXCEPT !.documents =
                          [j \in 1..(n - 1) |-> IF j = i THEN @[n] ELSE @[j]]],
                      "none", TRUE)

delete_document(doc_id) ==
    LET i == IndexOfId(kb.documents, doc_id)
    IN  IF i = 0
        THEN Returned("delete", "documents", doc_id, EmptyDict, kb, "none", FALSE)
        ELSE Returned("delete", "documents", doc_id, EmptyDict,
                      [kb EXCEPT !.documents = DelAt(@, i)], "none", TRUE)

(***************************************************************************)
(* Clients.                                                                *)
(***************************************************************************)
validate_client(client) == Truthy(client, "name") /\ Truthy(client, "contact")

create_client(client, ethical_tags, ethical_guideline_ids) ==
    Created("clients", client, <<ethical_tags, ethical_guideline_ids>>,
        IF ~validate_client(client)
        THEN [kb |-> kb, n |-> uuid_count, exc |-> "ValueError", val |-> EmptyDict]
        ELSE LET c == Put(_add_ethics_fields(client, ethical_tags, ethical_guideline_ids),
                          "id", uuid4(uuid_count))
             IN  [kb |-> [kb EXCEPT !.clients = Append(@, c)], n |-> uuid_count + 1,
                  exc |-> "none", val |-> c])

\* client.update(updates) runs first, validate_client(client) second
update_client(client_id, updates) ==
    LET i == IndexOfId(kb.clients, client_id)
    IN  IF i = 0
        THEN Returned("update", "clients", client_id, updates, kb, "none", FALSE)
        ELSE LET k2 == [kb EXCEPT !.clients[i] = Merge(@, updates)]
             IN  IF ~validate_client(k2.clients[i])
                 THEN Returned("update", "clients", client_id, updates, k2, "ValueError", FALSE)
                 ELSE Returned("update", "clients", client_id, updates, k2, "none", TRUE)

delete_client(client_id) ==
    LET i == IndexOfId(kb.clients, client_id)
    IN  IF i = 0
        THEN Returned("delete", "clients", client_id, EmptyDict, kb, "none", FALSE)
        ELSE Returned("delete", "clients", client_id, EmptyDict,
                      [kb EXCEPT !.clients = DelAt(@, i)], "none", TRUE)

(***************************************************************************)
(* Case files.                                                             *)
(***************************************************************************)
validate_case_file(case_file) == "title" \in DOMAIN case_file /\ "client_id" \in DOMAIN case_file

create_case_file(case_file, ethical_tags, ethical_guideline_ids) ==
    Created("case_files", case_file, <<ethical_tags, ethical_guideline_ids>>,
        IF ~validate_case_file(case_file)
        THEN [kb |-> kb, n |-> uuid_count, exc |-> "ValueError", val |-> EmptyDict]
        ELSE LET c == Put(_add_ethics_fields(case_file, ethical_tags, ethical_guideline_ids),
                          "id", uuid4(uuid_count))
             IN  [kb |-> [kb EXCEPT !.case_files = Append(@, c)], n |-> uuid_count + 1,
                  exc |-> "none", val |-> c])

update_case_file(case_file_id, updates) ==
    LET i == IndexOfId(kb.case_files, case_file_id)
    IN  IF i = 0
        THEN Returned("update", "case_files", case_file_id, updates, kb, "none", FALSE)
        ELSE IF ~validate_case_file(Merge(kb.case_files[i], updates))
        THEN Returned("update", "case_files", case_file_id, updates, kb, "ValueError", FALSE)
        ELSE Returned("update", "case_files", case_file_id, updates,
                      [kb EXCEPT !.case_files[i] = Merge(@, updates)], "none", TRUE)

delete_case_file(case_file_id) ==
    LET i == IndexOfId(kb.case_files, case_file_id)
    IN  IF i = 0
        THEN Returned("delete", "case_files", case_file_id, EmptyDict, kb, "none", FALSE)
        ELSE Returned("delete", "case_files", case_file_id, EmptyDict,
                      [kb EXCEPT !.case_files = DelAt(@, i)], "none", TRUE)

(***************************************************************************)
(* Contracts: create_contract mirrors the contract into documents.         *)
(***************************************************************************)
validate_contract(contract) ==
    "parties" \in DOMAIN contract /\ "effective_date" \in DOMAIN contract

\* self.contracts.append(contract) runs before
\* self.create_document({**contract, 'type': 'contract'}), whose ValueError
\* propagates to the caller
create_contract(contract, ethical_tags, ethical_guideline_ids) ==
    Created("contracts", contract, <<ethical_tags, ethical_guideline_ids>>,
        IF ~validate_contract(contract)
        THEN [kb |-> kb, n |-> uuid_count, exc |-> "ValueError", val |-> EmptyDict]
        ELSE LET c == Put(_add_ethics_fields(contract, ethical_tags, ethical_guideline_ids),
                          "id", uuid4(uuid_count))
                 k1 == [kb EXCEPT !.contracts = Append(@, c)]
                 m == create_document_on(k1, uuid_count + 1, Put(c, "type", "contract"),
                                         NoneVal, NoneVal)
             IN  [kb |-> m.kb, n |-> m.n, exc |-> m.exc,
                  val |-> IF m.exc = "none" THEN c ELSE EmptyDict])

update_contract(contract_id, updates) ==
    LET i == IndexOfId(kb.contracts, contract_id)
    IN  IF i = 0
        THEN Returned("update", "contracts", contract_id, updates, kb, "none", FALSE)
        ELSE IF ~validate_contract(Merge(kb.contracts[i], updates))
        THEN Returned("update", "contracts", contract_id, updates, kb, "ValueError", FALSE)
        ELSE Returned("update", "contracts", contract_id, updates,
                      [kb EXCEPT !.contracts[i] = Merge(@, updates)], "none", TRUE)

delete_contract(contract_id) ==
    LET i == IndexOfId(kb.contracts, contract_id)
    IN  IF i = 0
        THEN Returned("delete", "contracts", contract_id, EmptyDict, kb, "none", FALSE)
        ELSE Returned("delete", "contracts", contract_id, EmptyDict,
                      [kb EXCEPT !.contracts = DelAt(@, i)], "none", TRUE)

(***************************************************************************)
(* Internal documents: create_internal_doc mirrors the doc into documents. *)
(***************************************************************************)
validate_internal_doc(doc) == "title" \in DOMAIN doc /\ "content" \in DOMAIN doc

\* self.internal_docs.append(doc) runs before
\* self.create_document({**doc, 'type': 'internal_doc'})
create_internal_doc(doc, ethical_tags, ethical_guideline_ids) ==
    Created("internal_docs", doc, <<ethical_tags, ethical_guideline_ids>>,
        IF ~validate_internal_doc(doc)
        THEN [kb |-> kb, n |-> uuid_count, exc |-> "ValueError", val |-> EmptyDict]
        ELSE LET d == Put(_add_ethics_fields(doc, ethical_tags, ethical_guideline_ids),
                          "id", uuid4(uuid_count))
                 k1 == [kb EXCEPT !.internal_docs = Append(@, d)]
                 m == create_document_on(k1, uuid_count + 1, Put(d, "type", "internal_doc"),
                                         NoneVal, NoneVal)
             IN  [kb |-> m.kb, n |-> m.n, exc |-> m.exc,
                  val |-> IF m.exc = "none" THEN d ELSE EmptyDict])

update_internal_doc(doc_id, updates) ==
    LET i == IndexOfId(kb.internal_docs, doc_id)
    IN  IF i = 0
        THEN Returned("update", "internal_docs", doc_id, updates, kb, "none", FALSE)
        ELSE IF ~validate_internal_doc(Merge(kb.internal_docs[i], updates))
        THEN Returned("update", "internal_docs", doc_id, updates, kb, "ValueError", FALSE)
        ELSE Returned("update", "internal_docs", doc_id, updates,
                      [kb EXCEPT !.internal_docs[i] = Merge(@, updates)], "none", TRUE)

delete_internal_doc(doc_id) ==
    LET i == IndexOfId(kb.internal_docs, doc_id)
    IN  IF i = 0
        THEN Returned("delete", "internal_docs", doc_id, EmptyDict, kb, "none", FALSE)
        ELSE Returned("delete", "internal_docs", doc_id, EmptyDict,
                      [kb EXCEPT !.internal_docs = DelAt(@, i)], "none", TRUE)

(***************************************************************************)
(* Cases: create_case mirrors the case into documents; there is no delete. *)
(***************************************************************************)
validate_case(case) ==
    "case_number" \in DOMAIN case /\ "title" \in DOMAIN case /\ "text" \in DOMAIN case

create_case(case, ethical_tags, ethical_guideline_ids) ==
    Created("cases", case, <<ethical_tags, ethical_guideline_ids>>,
        IF ~validate_case(case)
        THEN [kb |-> kb, n |-> uuid_count, exc |-> "ValueError", val |-> EmptyDict]
        ELSE LET c == Put(_add_ethics_fields(case, ethical_tags, ethical_guideline_ids),
                          "id", uuid4(uuid_count))
                 k1 == [kb EXCEPT !.cases = Append(@, c)]
                 m == create_document_on(k1, uuid_count + 1, Put(c, "type", "case"),
                                         NoneVal, NoneVal)
             IN  [kb |-> m.kb, n |-> m.n, exc |-> m.exc,
                  val |-> IF m.exc = "none" THEN c ELSE EmptyDict])

list_cases(k) == k.cases

update_case(case_id, updates) ==
    LET i == IndexOfId(kb.cases, case_id)
    IN  IF i = 0
        THEN Returned("update", "cases", case_id, updates, kb, "none", FALSE)
        ELSE IF ~validate_case(Merge(kb.cases[i], updates))
        THEN Returned("update", "cases", case_id, updates, kb, "ValueError", FALSE)
        ELSE Returned("update", "cases", case_id, updates,
                      [kb EXCEPT !.cases[i] = Merge(@, updates)], "none", TRUE)

(***************************************************************************)
(* Statutes: like cases, each statute created is also stored as a document *)
(* of type 'statute'.  The store has no delete for statutes or cases.      *)
(***************************************************************************)
validate_statute(statute) ==
    "section" \in DOMAIN statute /\ "title" \in DOMAIN statute /\ "text" \in DOMAIN statute

\* the statute stored without the document of type 'statute'
create_statute_without_mirror(statute, ethical_tags, ethical_guideline_ids) ==
    Created("statutes", statute, <<ethical_tags, ethical_guideline_ids>>,
        IF ~validate_statute(statute)
        THEN [kb |-> kb, n |-> uuid_count, exc |-> "ValueError", val |-> EmptyDict]
        ELSE LET st == Put(_add_ethics_fields(statute, ethical_tags, ethical_guideline_ids),
                           "id", uuid4(uuid_count))
             IN  [kb |-> [kb EXCEPT !.statutes = Append(@, st)], n |-> uuid_count + 1,
                  exc |-> "none", val |-> st])

create_statute(statute, ethical_tags, ethical_guideline_ids) ==
    Created("statutes", statute, <<ethical_tags, ethical_guideline_ids>>,
        IF ~validate_statute(statute)
        THEN [kb |-> kb, n |-> uuid_count, exc |-> "ValueError", val |-> EmptyDict]
        ELSE LET st == Put(_add_ethics_fields(statute, ethical_tags, ethical_guideline_ids),
                           "id", uuid4(uuid_count))
                 k1 == [kb EXCEPT !.statutes = Append(@, st)]
                 m == create_document_on(k1, uuid_count + 1, Put(st, "type", "statute"),
                                         NoneVal, NoneVal)
             IN  [kb |-> m.kb, n |-> m.n, exc |-> m.exc,
                  val |-> IF m.exc = "none" THEN st ELSE EmptyDict])

list_statutes(k) == k.statutes

update_statute(statute_id, updates) ==
    LET i == IndexOfId(kb.statutes, statute_id)
    IN  IF i = 0
        THEN Returned("update", "statutes", statute_id, updates, kb, "none", FALSE)
        ELSE IF ~validate_statute(Merge(kb.statutes[i], updates))
        THEN Returned("update", "statutes", statute_id, updates, kb, "ValueError", FALSE)
        ELSE Returned("update", "statutes", statute_id, updates,
                      [kb EXCEPT !.statutes[i] = Merge(@, updates)], "none", TRUE)

(***************************************************************************)
(* LLM (provider) configurations.                                          *)
(***************************************************************************)
validate_llm(llm) ==
    /\ "name" \in DOMAIN llm
    /\ "type" \in DOMAIN llm
    /\ \/ llm.type = "local" /\ "model_path" \in DOMAIN llm
       \/ llm.type = "api" /\ "api_url" \in DOMAIN llm /\ "api_key" \in DOMAIN llm

\* the two path_or_url conditions read d['type'] once 'path_or_url' is present
\* and the target key absent: KeyError when the dict has no 'type'
path_or_url_KeyError(d) ==
    /\ "path_or_url" \in DOMAIN d
    /\ "type" \notin DOMAIN d
    /\ ("model_path" \notin DOMAIN d \/ "api_url" \notin DOMAIN d)

\* the copy validate_llm is given: path_or_url stands in for model_path / api_url
path_or_url_adapted(d) ==
    LET d1 == IF "path_or_url" \in DOMAIN d /\ "model_path" \notin DOMAIN d /\ d.type = "local"
              THEN Put(d, "model_path", d.path_or_url) ELSE d
    IN  IF "path_or_url" \in DOMAIN d1 /\ "api_url" \notin DOMAIN d1 /\ d1.type = "api"
        THEN Put(d1, "api_url", d1.path_or_url) ELSE d1

create_llm(llm) ==
    Created("llms", llm, <<NoneVal, NoneVal>>,
        IF path_or_url_KeyError(llm)
        THEN [kb |-> kb, n |-> uuid_count, exc |-> "KeyError", val |-> EmptyDict]
        ELSE IF ~validate_llm(path_or_url_adapted(llm))
        THEN [kb |-> kb, n |-> uuid_count, exc |-> "ValueError", val |-> EmptyDict]
        ELSE LET l1 == Put(llm, "id", uuid4(uuid_count))
                 llm_to_add == IF "is_default" \notin DOMAIN l1
                               THEN Put(l1, "is_default", FALSE) ELSE l1
             IN  [kb |-> [kb EXCEPT !.llms = Append(@, llm_to_add)], n |-> uuid_count + 1,
                  exc |-> "none", val |-> llm_to_add])

update_llm(llm_id, updates) ==
    LET i == IndexOfId(kb.llms, llm_id)
    IN  IF i = 0
        THEN Returned("update", "llms", llm_id, updates, kb, "none", FALSE)
        ELSE LET prospective_update == Merge(kb.llms[i], updates)
             IN  IF path_or_url_KeyError(prospective_update)
                 THEN Returned("update", "llms", llm_id, updates, kb, "KeyError", FALSE)
                 ELSE IF ~validate_llm(path_or_url_adapted(prospective_update))
                 THEN Returned("update", "llms", llm_id, updates, kb, "ValueError", FALSE)
                 ELSE Returned("update", "llms", llm_id, updates,
                               [kb EXCEPT !.llms[i] = Merge(@, updates)], "none", TRUE)

delete_llm(llm_id) ==
    LET i == IndexOfId(kb.llms, llm_id)
    IN  IF i = 0
        THEN Returned("delete", "llms", llm_id, EmptyDict, kb, "none", FALSE)
        ELSE Returned("delete", "llms", llm_id, EmptyDict,
                      [kb EXCEPT !.llms = DelAt(@, i)], "none", TRUE)

\* an id that matches no config leaves the flags as they were
set_default_llm_keeps_on_miss(llm_id) ==
    Returned("set_default", "llms", llm_id, EmptyDict,
             IF llm_id \in IdsOf(kb.llms)
             THEN [kb EXCEPT !.llms = [i \in 1..Len(@) |->
                                         Put(@[i], "is_default", Get(@[i], "id") = llm_id)]]
             ELSE kb,
             "none", llm_id \in IdsOf(kb.llms))

\* every config whose id matches becomes default, every other one non-default
set_default_llm(llm_id) ==
    Returned("set_default", "llms", llm_id, EmptyDict,
             [kb EXCEPT !.llms = [i \in 1..Len(@) |->
                                    Put(@[i], "is_default", Get(@[i], "id") = llm_id)]],
             "none", llm_id \in IdsOf(kb.llms))

\* llm_obj.get('is_default') is truthy
IsDefault(llm_obj) == "is_default" \in DOMAIN llm_obj /\ llm_obj.is_default

\* the first config flagged default, None (EmptyDict) when there is none
get_default_llm(k) ==
    IF \E i \in 1..Len(k.llms) : IsDefault(k.llms[i])
    THEN k.llms[CHOOSE i \in 1..Len(k.llms) :
                    /\ IsDefault(k.llms[i])
                    /\ \A j \in 1..(i - 1) : ~IsDefault(k.llms[j])]
    ELSE EmptyDict

(***************************************************************************)
(* Users, profiles and ethical guideline records (lists created lazily).   *)
(***************************************************************************)
validate_user(user) ==
    /\ Truthy(user, "username")
    /\ "role" \in DOMAIN user /\ user.role \in {"admin", "lawyer", "staff", "client"}
    /\ Truthy(user, "password_hash")

\* salt.hex() + ':' + hash_.hex(): an opaque, never empty token
_hash_password(password) == IF password = "" THEN "salt:pbkdf2()" ELSE "salt:pbkdf2(pw)"

\* the uuid is drawn before validate_user runs
create_user(user, password) ==
    Created("users", user, <<NoneVal, NoneVal>>,
        LET u == Put(Put(user, "id", uuid4(uuid_count)), "password_hash", _hash_password(password))
        IN  IF ~validate_user(u)
            THEN [kb |-> kb, n |-> uuid_count + 1, exc |-> "ValueError", val |-> EmptyDict]
            ELSE [kb |-> [kb EXCEPT !.users = Append(@, u)], n |-> uuid_count + 1,
                  exc |-> "none", val |-> u])

create_profile(profile_data) ==
    Created("profiles", profile_data, <<NoneVal, NoneVal>>,
        IF ~Truthy(profile_data, "name")
        THEN [kb |-> kb, n |-> uuid_count, exc |-> "ValueError", val |-> EmptyDict]
        ELSE LET new_profile == Put(profile_data, "id", uuid4(uuid_count))
             IN  [kb |-> [kb EXCEPT !.profiles = Append(@, new_profile)], n |-> uuid_count + 1,
                  exc |-> "none", val |-> new_profile])

set_active_profile(profile_id) ==
    /\ active_profile_id' = IF IndexOfId(kb.profiles, profile_id) # 0
                            THEN profile_id ELSE active_profile_id
    /\ ret' = Call("set_active", "profiles", profile_id, EmptyDict, "none", EmptyDict,
                   IndexOfId(kb.profiles, profile_id) # 0)
    /\ UNCHANGED <<kb, uuid_count, backup_file, deleted_ids, audit_log, threads, tm>>

\* the dict without the key k (del d[k])
Without(d, k) == [x \in (DOMAIN d) \ {k} |-> d[x]]

\* an 'id' in updates is deleted from it before anything is applied; an empty
\* name raises before the profile is touched
update_profile(profile_id, updates) ==
    LET i == IndexOfId(kb.profiles, profile_id)
        applied == Without(updates, "id")
    IN  IF i = 0
        THEN Returned("update", "profiles", profile_id, updates, kb, "none", FALSE)
        ELSE IF "name" \in DOMAIN applied /\ ~Truthy(applied, "name")
        THEN Returned("update", "profiles", profile_id, updates, kb, "ValueError", FALSE)
        ELSE Returned("update", "profiles", profile_id, updates,
                      [kb EXCEPT !.profiles[i] = Merge(@, applied)], "none", TRUE)

\* [p for p in self.profiles if p.get('id') != profile_id]
ProfilesWithout(profile_id) == SelectSeq(kb.profiles, LAMBDA p : Get(p, "id") # profile_id)

\* the profile is removed and the active profile left as it is
delete_profile_keeps_active(profile_id) ==
    LET found == Len(ProfilesWithout(profile_id)) < Len(kb.profiles)
    IN  /\ kb' = [kb EXCEPT !.profiles = ProfilesWithout(profile_id)]
        /\ active_profile_id' = active_profile_id
        /\ ret' = Call("delete", "profiles", profile_id, EmptyDict, "none", EmptyDict, found)
        /\ deleted_ids' = IF found THEN deleted_ids \cup {<<"profiles", profile_id>>}
                          ELSE deleted_ids
        /\ UNCHANGED <<uuid_count, backup_file, audit_log, threads, tm>>

\* every profile with the id is removed; the active profile is cleared when it
\* is the one deleted
delete_profile(profile_id) ==
    LET found == Len(ProfilesWithout(profile_id)) < Len(kb.profiles)
    IN  /\ kb' = [kb EXCEPT !.profiles = ProfilesWithout(profile_id)]
        /\ active_profile_id' = IF found /\ active_profile_id = profile_id
                                THEN NoneVal ELSE active_profile_id
        /\ ret' = Call("delete", "profiles", profile_id, EmptyDict, "none", EmptyDict, found)
        /\ deleted_ids' = IF found THEN deleted_ids \cup {<<"profiles", profile_id>>}
                          ELSE deleted_ids
        /\ UNCHANGED <<uuid_count, backup_file, audit_log, threads, tm>>

validate_ethical_guideline_record(record) ==
    Truthy(record, "title") /\ Truthy(record, "principle") /\ Truthy(record, "source")

create_ethical_guideline_record(record) ==
    Created("ethical_guideline_records", record, <<NoneVal, NoneVal>>,
        IF ~validate_ethical_guideline_record(record)
        THEN [kb |-> kb, n |-> uuid_count, exc |-> "ValueError", val |-> EmptyDict]
        ELSE LET r == Put(record, "id", uuid4(uuid_count))
             IN  [kb |-> [kb EXCEPT !.ethical_guideline_records = Append(@, r)],
                  n |-> uuid_count + 1, exc |-> "none", val |-> r])

(***************************************************************************)
(* Backup and restore of the in-memory KB through a JSON file.             *)
(***************************************************************************)
\* the list-valued keys of data_to_save
SavedLists == InitAttrs \cup {"profiles"}

\* data_to_save: the JSON object save_to_file dumps
data_to_save(k, active) ==
    [key \in SavedLists \cup {"active_profile_id"} |->
        IF key = "active_profile_id" THEN active ELSE k[key]]

\* the file the CLI backs the KB up to
kb_backup_file == "knowledge_base_cli_data.json"

\* other paths a caller may pass: no such file, a file that is not JSON, a JSON
\* document that is a list, and a JSON object holding only a 'clients' key
OtherFiles ==
    [f \in {"nonexistent.json", "garbage.json", "list.json", "partial.json"} |->
        CASE f = "nonexistent.json" -> [status |-> "missing", data |-> EmptyDict]
          [] f = "garbage.json" -> [status |-> "unparsable", data |-> EmptyDict]
          [] f = "list.json" -> [status |-> "list", data |-> EmptyDict]
          [] f = "partial.json" ->
                [status |-> "object",
                 data |-> [clients |-> <<[name |-> "Bob", contact |-> "bob@example.com",
                                         id |-> "b0b"]>>]]]

FileNames == {kb_backup_file} \cup DOMAIN OtherFiles

\* open(filename) and json.load(f)
ReadFile(filename) == IF filename = kb_backup_file THEN backup_file ELSE OtherFiles[filename]

\* open(filename, 'w') raises IOError when can_write is FALSE: the file keeps
\* its contents; otherwise json.dump writes data_to_save
save_to_file(filename, can_write) ==
    /\ filename = kb_backup_file
    /\ backup_file' = IF can_write
                      THEN [status |-> "object", data |-> data_to_save(kb, active_profile_id)]
                      ELSE backup_file
    /\ ret' = Call("save", filename, NoneVal, EmptyDict,
                   IF can_write THEN "none" ELSE "IOError", EmptyDict, can_write)
    /\ UNCHANGED <<kb, active_profile_id, uuid_count, deleted_ids, audit_log, threads, tm>>

\* data_loaded.get(key, [])
LoadedList(data_loaded, key) == IF key \in DOMAIN data_loaded THEN data_loaded[key] ELSE <<>>

\* load_from_file on store k: the store and active profile it leaves, and the
\* exception it caught ("none" when the state was loaded)
load_from_file_on(k, active, filename) ==
    LET f == ReadFile(filename)
    IN  CASE f.status = "missing" ->
                 [kb |-> Reinit(k), active |-> active, exc |-> "FileNotFoundError"]
          [] f.status = "unparsable" ->
                 [kb |-> k, active |-> active, exc |-> "JSONDecodeError"]
          [] f.status = "list" ->
                 [kb |-> k, active |-> active, exc |-> "AttributeError"]
          [] f.status = "object" ->
                 [kb |-> [a \in Attrs |-> IF a \in SavedLists
                                          THEN LoadedList(f.data, a) ELSE k[a]],
                  active |-> Get(f.data, "active_profile_id"),
                  exc |-> "none"]

\* restore into the running store
load_from_file(filename) ==
    LET r == load_from_file_on(kb, active_profile_id, filename)
    IN  /\ kb' = r.kb
        /\ active_profile_id' = r.active
        /\ ret' = Call("load", filename, NoneVal, EmptyDict, r.exc, EmptyDict, r.exc = "none")
        /\ UNCHANGED <<uuid_count, backup_file, deleted_ids, audit_log, threads, tm>>

\* a new session: kb = KnowledgeBase(); kb.load_from_file(kb_backup_file)
main_cli ==
    LET r == load_from_file_on(NewKnowledgeBase, NoneVal, kb_backup_file)
    IN  /\ kb' = r.kb
        /\ active_profile_id' = r.active
        /\ ret' = Call("startup", kb_backup_file, NoneVal, EmptyDict, r.exc, EmptyDict,
                       r.exc = "none")
        /\ UNCHANGED <<uuid_count, backup_file, deleted_ids, audit_log, threads, tm>>

(***************************************************************************)
(* Inputs of the calls.                                                    *)
(***************************************************************************)
DocumentPayloads == {[title |-> "T", text |-> "x"], [title |-> "T"]}

ClientPayloads == {[name |-> "Alice", contact |-> "a@x.com"], [contact |-> "a@x.com"]}

CaseFilePayloads == {[title |-> "Case A", client_id |-> "cid"], [title |-> "No client_id"]}

ContractPayloads ==
    {[parties |-> "A,B", effective_date |-> "2025-01-01"],
     [parties |-> "A,B", effective_date |-> "2025-01-01", title |-> "T", text |-> "x"],
     [parties |-> "A,B"]}

InternalDocPayloads == {[title |-> "Policy", content |-> "Policy text"], [title |-> "Policy"]}

\* an id argument: an id of the collection, or one that matches nothing
IdArgs(lst) == IdsOf(lst) \cup {"nonexistent"}

\* updates that carry an 'id' key: the first uuid ever drawn
IdPatches == {[id |-> "u1"]}

DocumentPatches == {EmptyDict, [title |-> "T2"]} \cup IdPatches

ClientPatches == {EmptyDict, [contact |-> "b@x.com"], [name |-> ""]} \cup IdPatches

CaseFilePatches == {EmptyDict, [title |-> "Case B"]} \cup IdPatches

ContractPatches == {EmptyDict, [parties |-> "A,C"]} \cup IdPatches

InternalDocPatches == {EmptyDict, [content |-> "New text"]}

(***************************************************************************)
(* The store under create, update and delete calls.                        *)
(***************************************************************************)
Init ==
    /\ kb = NewKnowledgeBase
    /\ active_profile_id = NoneVal
    /\ uuid_count = 0
    /\ backup_file = [status |-> "missing", data |-> EmptyDict]
    /\ ret = NoCall
    /\ deleted_ids = {}
    /\ audit_log = <<>>
    /\ threads = NoThreads
    /\ tm = NewTrainingManager

Next ==
    \/ \E p \in DocumentPayloads : create_document(p, NoneVal, NoneVal)
    \/ \E i \in IdArgs(kb.documents), u \in DocumentPatches : update_document(i, u)
    \/ \E i \in IdArgs(kb.documents) : delete_document(i)
    \/ \E p \in ClientPayloads : create_client(p, NoneVal, NoneVal)
    \/ \E i \in IdArgs(kb.clients), u \in ClientPatches : update_client(i, u)
    \/ \E i \in IdArgs(kb.clients) : delete_client(i)
    \/ \E p \in CaseFilePayloads, t \in EthicsArgs : create_case_file(p, t[1], t[2])
    \/ \E i \in IdArgs(kb.case_files), u \in CaseFilePatches : update_case_file(i, u)
    \/ \E i \in IdArgs(kb.case_files) : delete_case_file(i)
    \/ \E p \in ContractPayloads : create_contract(p, NoneVal, NoneVal)
    \/ \E i \in IdArgs(kb.contracts), u \in ContractPatches : update_contract(i, u)
    \/ \E i \in IdArgs(kb.contracts) : delete_contract(i)
    \/ \E p \in InternalDocPayloads : create_internal_doc(p, NoneVal, NoneVal)
    \/ \E i \in IdArgs(kb.internal_docs), u \in InternalDocPatches : update_internal_doc(i, u)
    \/ \E i \in IdArgs(kb.internal_docs) : delete_internal_doc(i)

Spec == Init /\ [][Next]_vars

(***************************************************************************)
(* The provider configurations under create_llm, update_llm, delete_llm    *)
(* and set_default_llm calls.                                              *)
(***************************************************************************)
LlmPayloads ==
    {[name |-> "LocalModel", type |-> "local", model_path |-> "/models/local-model.bin"],
     [name |-> "APImodel", type |-> "api", api_url |-> "https://api.llm.com",
      api_key |-> "secret", is_default |-> TRUE],
     [name |-> "Other", type |-> "local", path_or_url |-> "/models/other.bin",
      is_default |-> FALSE],
     [name |-> "Custom", type |-> "custom"],
     [name |-> "Untyped", path_or_url |-> "/models/x.bin"]}

LlmPatches ==
    {EmptyDict, [model_path |-> "/models/updated.bin"], [is_default |-> TRUE],
     [type |-> "api"]} \cup IdPatches

NextLLM ==
    \/ \E p \in LlmPayloads : create_llm(p)
    \/ \E i \in IdArgs(kb.llms), u \in LlmPatches : update_llm(i, u)
    \/ \E i \in IdArgs(kb.llms) : delete_llm(i)
    \/ \E i \in IdArgs(kb.llms) : set_default_llm(i)

SpecLLM == Init /\ [][NextLLM]_vars

\* the configurations under create, delete and set-default calls only
NextDefault ==
    \/ \E p \in LlmPayloads : create_llm(p)
    \/ \E i \in IdArgs(kb.llms) : delete_llm(i)
    \/ \E i \in IdArgs(kb.llms) : set_default_llm(i)

SpecDefault == Init /\ [][NextDefault]_vars

(***************************************************************************)
(* set_default_llm called from several threads on one KnowledgeBase.  The  *)
(* method takes no lock, and the interpreter may switch threads between    *)
(* any two bytecodes, so between two iterations of its loop; a step of a   *)
(* running call is one iteration.  The readers are taken as one step each. *)
(***************************************************************************)
\* found = False; the loop is about to visit self.llms[0]
set_default_llm_begin(t, llm_id) ==
    /\ threads[t].op = "idle"
    /\ threads' = [threads EXCEPT ![t] =
                      [op |-> "set_default_llm", llm_id |-> llm_id, i |-> 1, found |-> FALSE]]
    /\ UNCHANGED <<kb, active_profile_id, uuid_count, backup_file, ret, deleted_ids,
                   audit_log, tm>>

\* one iteration: the config at position i is flagged default when its id
\* matches, non-default otherwise
set_default_llm_step(t) ==
    LET c == threads[t]
        hit == Get(kb.llms[c.i], "id") = c.llm_id
    IN  /\ c.op = "set_default_llm"
        /\ c.i <= Len(kb.llms)
        /\ kb' = [kb EXCEPT !.llms[c.i] = Put(@, "is_default", hit)]
        /\ threads' = [threads EXCEPT ![t].i = c.i + 1, ![t].found = c.found \/ hit]
        /\ UNCHANGED <<active_profile_id, uuid_count, backup_file, ret, deleted_ids,
                       audit_log, tm>>

\* return found
set_default_llm_return(t) ==
    LET c == threads[t]
    IN  /\ c.op = "set_default_llm"
        /\ c.i > Len(kb.llms)
        /\ threads' = [threads EXCEPT ![t] = IdleThread]
        /\ ret' = Call("set_default", "llms", c.llm_id, EmptyDict, "none", EmptyDict, c.found)
        /\ UNCHANGED <<kb, active_profile_id, uuid_count, backup_file, deleted_ids,
                       audit_log, tm>>

\* list(self.llms), by a thread that is in no call
list_llms_by(t) ==
    /\ threads[t].op = "idle"
    /\ ret' = Call("list_llms", "llms", NoneVal, EmptyDict, "none", kb.llms, TRUE)
    /\ UNCHANGED <<kb, active_profile_id, uuid_count, backup_file, deleted_ids,
                   audit_log, threads, tm>>

get_default_llm_by(t) ==
    /\ threads[t].op = "idle"
    /\ ret' = Call("get_default_llm", "llms", NoneVal, EmptyDict, "none",
                   get_default_llm(kb), TRUE)
    /\ UNCHANGED <<kb, active_profile_id, uuid_count, backup_file, deleted_ids,
                   audit_log, threads, tm>>

\* the store after MaxIds create_llm calls and a set_default_llm on one of the
\* configs: exactly one config is the default
InitThreads ==
    /\ \E d \in 1..MaxIds :
           kb = [NewKnowledgeBase EXCEPT !.llms =
                    [i \in 1..MaxIds |->
                        [name |-> "LocalModel", type |-> "local",
                         model_path |-> "/models/local-model.bin",
                         id |-> uuid4(i - 1), is_default |-> (i = d)]]]
    /\ active_profile_id = NoneVal
    /\ uuid_count = MaxIds
    /\ backup_file = [status |-> "missing", data |-> EmptyDict]
    /\ ret = NoCall
    /\ deleted_ids = {}
    /\ audit_log = <<>>
    /\ threads = NoThreads
    /\ tm = NewTrainingManager

NextThreads ==
    \/ \E t \in Threads, i \in IdsOf(kb.llms) : set_default_llm_begin(t, i)
    \/ \E t \in Threads : set_default_llm_step(t)
    \/ \E t \in Threads : set_default_llm_return(t)
    \/ \E t \in Threads : list_llms_by(t)
    \/ \E t \in Threads : get_default_llm_by(t)

SpecThreads == InitThreads /\ [][NextThreads]_vars

(***************************************************************************)
(* The store under backup, restore and restart.                            *)
(***************************************************************************)
UserPayloads == {[username |-> "alice", role |-> "lawyer"], [username |-> "bob", role |-> "guest"]}

ProfilePayloads == {[name |-> "Criminal Defense", jurisdiction |-> "Tennessee"], [name |-> ""]}

GuidelinePayloads ==
    {[title |-> "Dignity", principle |-> "Human dignity", source |-> "CCC"],
     [title |-> "Dignity"]}

NextBackup ==
    \/ \E p \in ClientPayloads : create_client(p, NoneVal, NoneVal)
    \/ \E p \in UserPayloads : create_user(p, "pw")
    \/ \E p \in ProfilePayloads : create_profile(p)
    \/ \E i \in IdArgs(kb.profiles) : set_active_profile(i)
    \/ \E p \in GuidelinePayloads : create_ethical_guideline_record(p)
    \/ \E w \in BOOLEAN : save_to_file(kb_backup_file, w)
    \/ \E f \in FileNames : load_from_file(f)
    \/ main_cli

SpecBackup == Init /\ [][NextBackup]_vars

(***************************************************************************)
(* The profiles under their own four operations.                           *)
(***************************************************************************)
ProfilePatches ==
    {[jurisdiction |-> "Kentucky"], [name |-> ""], [id |-> "u1", name |-> "Civil"]}

NextProfiles ==
    \/ \E p \in ProfilePayloads : create_profile(p)
    \/ \E i \in IdArgs(kb.profiles), u \in ProfilePatches : update_profile(i, u)
    \/ \E i \in IdArgs(kb.profiles) : delete_profile(i)
    \/ \E i \in IdArgs(kb.profiles) : set_active_profile(i)

SpecProfiles == Init /\ [][NextProfiles]_vars

(***************************************************************************)
(* Python strings: str.lower(), the `in` substring test and re.search of a *)
(* \b-delimited literal under re.IGNORECASE.                               *)
(***************************************************************************)
UpperChars == "ABCDEFGHIJKLMNOPQRSTUVWXYZ"

LowerChars == "abcdefghijklmnopqrstuvwxyz"

DigitChars == "0123456789_"

CharAt(s, i) == SubSeq(s, i, i)

LowerChar(c) ==
    IF \E i \in 1..Len(UpperChars) : CharAt(UpperChars, i) = c
    THEN CharAt(LowerChars, CHOOSE i \in 1..Len(UpperChars) : CharAt(UpperChars, i) = c)
    ELSE c

RECURSIVE Lower(_)
Lower(s) == IF s = "" THEN "" ELSE LowerChar(CharAt(s, 1)) \o Lower(SubSeq(s, 2, Len(s)))

\* sub in s
Contains(s, sub) ==
    \E i \in 1..(Len(s) - Len(sub) + 1) : SubSeq(s, i, i + Len(sub) - 1) = sub

\* \w of re: a letter, a digit or the underscore
IsWordChar(c) ==
    \/ \E i \in 1..Len(LowerChars) : CharAt(LowerChars, i) = LowerChar(c)
    \/ \E i \in 1..Len(DigitChars) : CharAt(DigitChars, i) = c

\* re.search(r'\b<lit>\b', text, re.IGNORECASE) finds a match
SearchWord(lit, text) ==
    \E i \in 1..(Len(text) - Len(lit) + 1) :
        /\ \A k \in 1..Len(lit) :
               LowerChar(CharAt(text, i + k - 1)) = LowerChar(CharAt(lit, k))
        /\ (i = 1 \/ ~IsWordChar(CharAt(text, i - 1)))
        /\ (i + Len(lit) - 1 = Len(text) \/ ~IsWordChar(CharAt(text, i + Len(lit))))

\* None where a dict is expected (user=None, context=None)
NoneDict == [k \in {NoneVal} |-> NoneVal]

IsNone(d) == DOMAIN d = {NoneVal}

\* a payload handed to the filter is a dict or a string
PyDict(d) == [dict |-> d]

PyStr(s) == [str |-> s]

IsDict(data) == "dict" \in DOMAIN data

\* str() of a dict: "{'k': 'v', ...}"; the items are joined in some order (the
\* searches below do not depend on it)
RECURSIVE StrItems(_, _)
StrItems(d, keys) ==
    IF keys = {} THEN ""
    ELSE LET k == CHOOSE x \in keys : TRUE
             rest == keys \ {k}
         IN  "'" \o k \o "': '" \o d[k] \o "'"
             \o (IF rest = {} THEN "" ELSE ", " \o StrItems(d, rest))

Str(data) ==
    IF IsDict(data) THEN "{" \o StrItems(data.dict, DOMAIN data.dict) \o "}" ELSE data.str

(***************************************************************************)
(* The ethical filter (ethical_filter.py).                                 *)
(***************************************************************************)
ABA_RULES ==
    [confidentiality |-> [rule |-> "ABA Model Rule 1.6"],
     conflict_of_interest |-> [rule |-> "ABA Model Rule 1.7"],
     unauthorized_practice |-> [rule |-> "ABA Model Rule 5.5"]]

\* the literals of the patterns, each wrapped in \b ... \b, in list order
patterns == <<"SSN", "Social Security", "DOB", "Date of Birth", "medical", "diagnosis">>

Verdict(result, explanation, rule) ==
    [result |-> result, explanation |-> explanation, rule |-> rule]

\* a pass that says so in its explanation
PassVerdict_with_note == Verdict("pass", "No ethical issues detected.", "")

PassVerdict == Verdict("pass", "", "")

check_confidentiality(data) ==
    LET text == Str(data)
        hits == {i \in 1..Len(patterns) : SearchWord(patterns[i], text)}
    IN  IF hits = {} THEN <<"pass", "">>
        ELSE LET first == CHOOSE i \in hits : \A j \in hits : i <= j
             IN  <<"warn", "Potential confidential info detected: '\\b" \o patterns[first]
                           \o "\\b'. See " \o ABA_RULES.confidentiality.rule>>

\* context.get('adverse_parties', [])
adverse_parties_of(context) ==
    IF "adverse_parties" \in DOMAIN context THEN context.adverse_parties ELSE <<>>

InList(x, lst) == \E i \in 1..Len(lst) : lst[i] = x

check_conflict_of_interest(data, context) ==
    LET client == IF IsDict(data) THEN Get(data.dict, "client") ELSE NoneVal
    IN  IF client # NoneVal /\ client # "" /\ InList(client, adverse_parties_of(context))
        THEN <<"block", "Conflict of interest: client '" \o client
                        \o "' is an adverse party. See " \o ABA_RULES.conflict_of_interest.rule>>
        ELSE <<"pass", "">>

\* user.get('jurisdictions', []) if user else []
authorized_of(user) ==
    IF IsNone(user) \/ DOMAIN user = {} THEN <<>>
    ELSE IF "jurisdictions" \in DOMAIN user THEN user.jurisdictions ELSE <<>>

check_unauthorized_practice(user, context) ==
    LET jurisdiction == Get(context, "jurisdiction")
    IN  IF jurisdiction # NoneVal /\ jurisdiction # "" /\ ~InList(jurisdiction, authorized_of(user))
        THEN <<"block", "Unauthorized practice in " \o jurisdiction
                        \o ". See " \o ABA_RULES.unauthorized_practice.rule>>
        ELSE <<"pass", "">>

\* every rule run for every action type
checks_of_every_action(data, action_type, user, context) ==
    LET c1 == check_confidentiality(data)
        l1 == IF c1[1] # "pass"
              THEN <<Verdict(c1[1], c1[2], ABA_RULES.confidentiality.rule)>> ELSE <<>>
        c2 == check_conflict_of_interest(data, context)
        l2 == IF c2[1] # "pass"
              THEN Append(l1, Verdict(c2[1], c2[2], ABA_RULES.conflict_of_interest.rule)) ELSE l1
        c3 == check_unauthorized_practice(user, context)
    IN  IF c3[1] # "pass"
        THEN Append(l2, Verdict(c3[1], c3[2], ABA_RULES.unauthorized_practice.rule)) ELSE l2

\* the checks list of check_ethics, in the order the rules append to it
checks_of(data, action_type, user, context) ==
    LET c1 == check_confidentiality(data)
        l1 == IF c1[1] # "pass"
              THEN <<Verdict(c1[1], c1[2], ABA_RULES.confidentiality.rule)>> ELSE <<>>
        c2 == check_conflict_of_interest(data, context)
        l2 == IF action_type \in {"create_client", "update_client", "create_case", "update_case"}
                 /\ c2[1] # "pass"
              THEN Append(l1, Verdict(c2[1], c2[2], ABA_RULES.conflict_of_interest.rule)) ELSE l1
        c3 == check_unauthorized_practice(user, context)
    IN  IF action_type \in {"create_case", "update_case", "legal_action"} /\ c3[1] # "pass"
        THEN Append(l2, Verdict(c3[1], c3[2], ABA_RULES.unauthorized_practice.rule)) ELSE l2

\* the last matching check instead of the first
FirstWith_last(checks, result) ==
    checks[CHOOSE i \in 1..Len(checks) :
               /\ checks[i].result = result
               /\ \A j \in (i + 1)..Len(checks) : checks[j].result # result]

\* next(c for c in checks if c['result'] == result)
FirstWith(checks, result) ==
    checks[CHOOSE i \in 1..Len(checks) :
               /\ checks[i].result = result
               /\ \A j \in 1..(i - 1) : checks[j].result # result]

\* the first check that fired, whatever its severity
check_ethics_first_fired(data, action_type, user, context) ==
    LET ctx == IF IsNone(context) \/ DOMAIN context = {} THEN EmptyDict ELSE context
        checks == checks_of(data, action_type, user, ctx)
    IN  IF checks # <<>> THEN checks[1] ELSE PassVerdict

\* context = context or {}
check_ethics(data, action_type, user, context) ==
    LET ctx == IF IsNone(context) \/ DOMAIN context = {} THEN EmptyDict ELSE context
        checks == checks_of(data, action_type, user, ctx)
    IN  IF \E i \in 1..Len(checks) : checks[i].result = "block"
        THEN FirstWith(checks, "block")
        ELSE IF \E i \in 1..Len(checks) : checks[i].result = "warn"
        THEN FirstWith(checks, "warn")
        ELSE PassVerdict

(***************************************************************************)
(* The filter under calls with every payload, action type, user and        *)
(* context (tasks.ethical_batch_check runs it on each item of a batch).    *)
(***************************************************************************)
EthicsPayloads ==
    {PyDict([name |-> "Alice"]),
     PyDict([name |-> "Alice", client |-> "Acme"]),
     PyDict([client |-> "Acme", notes |-> "SSN 123-45-6789"]),
     PyDict([name |-> "Bob", notes |-> "Medical history; DOB 1990"]),
     PyDict([client |-> "Other", notes |-> "diagnosis pending"]),
     PyStr("Date of birth unknown"),
     PyStr("Acme, biomedical supplier")}

ActionTypes == {"create_client", "update_case", "legal_action", "create_document"}

EthicsUsers == {NoneDict, [jurisdictions |-> <<"TN">>], [name |-> "clerk"]}

EthicsContexts ==
    {NoneDict,
     [adverse_parties |-> <<"Acme">>],
     [jurisdiction |-> "KY"],
     [jurisdiction |-> "TN"],
     [adverse_parties |-> <<"Zed", "Acme">>, jurisdiction |-> "KY"]}

\* a call about to be made: the arguments are chosen, the filter has not run
InitEthics ==
    /\ kb = NewKnowledgeBase
    /\ active_profile_id = NoneVal
    /\ uuid_count = 0
    /\ backup_file = [status |-> "missing", data |-> EmptyDict]
    /\ deleted_ids = {}
    /\ audit_log = <<>>
    /\ threads = NoThreads
    /\ tm = NewTrainingManager
    /\ \E data \in EthicsPayloads, action_type \in ActionTypes,
          user \in EthicsUsers, context \in EthicsContexts :
           ret = Call("pending", action_type, NoneVal,
                      [data |-> data, user |-> user, context |-> context],
                      "none", EmptyDict, FALSE)

\* the confidentiality rule leaving the text it searched in place of the payload
check_ethics_call_keeps_text ==
    /\ ret.verb = "pending"
    /\ ret' = [ret EXCEPT !.verb = "check_ethics", !.ok = TRUE,
                          !.arg.data = PyStr(Str(ret.arg.data)),
                          !.val = check_ethics(ret.arg.data, ret.coll,
                                               ret.arg.user, ret.arg.context)]
    /\ UNCHANGED <<kb, active_profile_id, uuid_count, backup_file, deleted_ids, audit_log, threads, tm>>

check_ethics_call ==
    /\ ret.verb = "pending"
    /\ ret' = [ret EXCEPT !.verb = "check_ethics", !.ok = TRUE,
                          !.val = check_ethics(ret.arg.data, ret.coll,
                                               ret.arg.user, ret.arg.context)]
    /\ UNCHANGED <<kb, active_profile_id, uuid_count, backup_file, deleted_ids, audit_log, threads, tm>>

\* the same item once more in the batch: a second call on the objects the first
\* call was given (ret.id counts it)
check_ethics_again ==
    /\ ret.verb = "check_ethics"
    /\ ret.id = NoneVal
    /\ ret' = [ret EXCEPT !.id = "second",
                          !.val = check_ethics(ret.arg.data, ret.coll,
                                               ret.arg.user, ret.arg.context)]
    /\ UNCHANGED <<kb, active_profile_id, uuid_count, backup_file, deleted_ids, audit_log, threads, tm>>

NextEthics ==
    \/ check_ethics_call
    \/ check_ethics_again

SpecEthics == InitEthics /\ [][NextEthics]_vars

(***************************************************************************)
(* The provider router (llm_manager.run_llm_query).  What the imported     *)
(* library and the backend do is an input: env.import_ok tells whether the *)
(* adapter's library imports, env.backend what the backend call yields.    *)
(***************************************************************************)
\* d.get(k, default): a key present with the value None yields None
GetOr(d, k, default) == IF k \in DOMAIN d THEN d[k] ELSE default

NoExplain == "No explainability info available."

\* a `return response, explain` reached before the backend is called
\* (openai.ChatCompletion.create, requests.post, the transformers pipeline), one
\* reached after the call was made, or an exception leaving run_llm_query
Answer(text, explain) == [exc |-> "none", text |-> text, explain |-> explain, called |-> FALSE]

Responded(text, explain) == [exc |-> "none", text |-> text, explain |-> explain, called |-> TRUE]

Raises(exc) == [exc |-> exc, text |-> NoneVal, explain |-> NoneVal, called |-> FALSE]

\* "raises": the call raises (network failure, missing local artifact);
\* "status_error": an HTTP status other than 200; "bad_json": the body is not JSON;
\* "no_text": the parsed result lacks the generated text; "text": it has it
BackendOutcomes == {"raises", "status_error", "bad_json", "no_text", "text"}

\* the generated text of a well-formed result, and str(result) of one without it
GeneratedText == "The statute applies."

StrOfResult == "{'error': 'overloaded'}"

StrOfException == "Connection refused"

openai_adapter(llm, api_url, env) ==
    IF ~env.import_ok
    THEN Answer("[OpenAI API error: No module named 'openai']", NoExplain)
    ELSE IF ~Truthy(llm, "api_key")
    THEN Answer("[Error: No API key configured for this LLM]", NoExplain)
    ELSE IF env.backend = "text"
    THEN Responded(GeneratedText,
                "OpenAI model: " \o GetOr(llm, "model", "gpt-3.5-turbo")
                \o ", prompt tokens: 5, completion tokens: 7")
    ELSE IF env.backend = "no_text"
    THEN Responded("[OpenAI API error: 'content']", NoExplain)
    ELSE Responded("[OpenAI API error: " \o StrOfException \o "]", NoExplain)

anthropic_adapter(llm, api_url, env) ==
    IF ~env.import_ok
    THEN Answer("[Anthropic API error: No module named 'requests']", NoExplain)
    ELSE IF ~Truthy(llm, "api_key")
    THEN Answer("[Error: No API key configured for Anthropic]", NoExplain)
    ELSE LET model == GetOr(llm, "model", "claude-3-opus-20240229")
         IN  CASE env.backend = "raises" ->
                    Responded("[Anthropic API error: " \o StrOfException \o "]", NoExplain)
               [] env.backend = "status_error" ->
                    Responded("[Anthropic API error: 529 overloaded]", NoExplain)
               [] env.backend = "bad_json" ->
                    Responded("[Anthropic API error: Expecting value: line 1 column 1 (char 0)]",
                           NoExplain)
               [] env.backend = "no_text" ->
                    Responded(StrOfResult, "Anthropic model: " \o model \o ", tokens used: ?")
               [] env.backend = "text" ->
                    Responded(GeneratedText, "Anthropic model: " \o model \o ", tokens used: 5")

huggingface_adapter(llm, api_url, env) ==
    IF ~env.import_ok
    THEN Answer("[HuggingFace API error: No module named 'requests']", NoExplain)
    ELSE IF ~Truthy(llm, "api_key")
    THEN Answer("[Error: No API key configured for HuggingFace]", NoExplain)
    ELSE LET model == GetOr(llm, "model", "HuggingFaceH4/zephyr-7b-beta")
         IN  CASE env.backend = "raises" ->
                    Responded("[HuggingFace API error: " \o StrOfException \o "]", NoExplain)
               [] env.backend = "status_error" ->
                    Responded("[HuggingFace API error: 503 loading]", NoExplain)
               [] env.backend = "bad_json" ->
                    Responded("[HuggingFace API error: Expecting value: line 1 column 1 (char 0)]",
                           NoExplain)
               [] env.backend = "no_text" ->
                    Responded(StrOfResult, "HuggingFace model: " \o model)
               [] env.backend = "text" ->
                    Responded(GeneratedText, "HuggingFace model: " \o model)

local_adapter(llm, name, prompt, env) ==
    IF ~env.import_ok
    THEN Answer("[transformers not installed: cannot run local LLM '" \o name \o "']\nPrompt: "
                \o prompt \o "\nResponse: This is a mock local LLM response.",
                "This output was generated by a mock local LLM. No real legal analysis was performed.")
    ELSE IF ~Truthy(llm, "path_or_url")
    THEN Answer("[Error: No local model path configured]", NoExplain)
    ELSE IF env.backend = "text"
    THEN Responded(GeneratedText,
                "Local model: " \o llm.path_or_url \o " (transformers pipeline)")
    ELSE IF env.backend = "no_text"
    THEN Responded(StrOfResult,
                "Local model: " \o llm.path_or_url \o " (transformers pipeline)")
    ELSE Responded("[Local LLM error: " \o StrOfException \o "]", NoExplain)

run_llm_query(llm, prompt, env) ==
    LET llm_type == Get(llm, "type")
        name == Get(llm, "name")
        provider == IF Truthy(llm, "provider") THEN Lower(llm.provider) ELSE ""
        api_url == GetOr(llm, "api_url", "")
    IN  IF llm_type # "api"
        THEN IF llm_type = "local"
             THEN local_adapter(llm, name, prompt, env)
             ELSE Answer("[Unknown LLM type/provider: " \o llm_type \o " / " \o provider \o "]",
                         NoExplain)
        ELSE IF Contains(provider, "openai")
        THEN openai_adapter(llm, api_url, env)
        \* 'openai' in api_url.lower() is evaluated next: None has no lower()
        ELSE IF api_url = NoneVal
        THEN Raises("AttributeError")
        ELSE IF Contains(Lower(api_url), "openai")
        THEN openai_adapter(llm, api_url, env)
        ELSE IF Contains(provider, "anthropic") \/ Contains(Lower(api_url), "anthropic")
        THEN anthropic_adapter(llm, api_url, env)
        ELSE IF Contains(provider, "huggingface") \/ Contains(Lower(api_url), "huggingface")
        THEN huggingface_adapter(llm, api_url, env)
        ELSE Answer("[Unknown LLM type/provider: " \o llm_type \o " / " \o provider \o "]",
                    NoExplain)

(***************************************************************************)
(* The router under calls with every configuration and backend outcome.    *)
(***************************************************************************)
QueryConfigs ==
    {[name |-> "gpt", type |-> "api", provider |-> "OpenAI",
      api_url |-> "https://api.openai.com/v1", api_key |-> "sk-1"],
     [name |-> "gpt", type |-> "api", provider |-> "OpenAI", api_url |-> NoneVal, api_key |-> ""],
     [name |-> "claude", type |-> "api", provider |-> "Anthropic", api_key |-> "sk-2"],
     [name |-> "claude", type |-> "api",
      api_url |-> "https://api.anthropic.com/v1/messages", api_key |-> NoneVal],
     [name |-> "claude", type |-> "api", provider |-> "anthropic",
      api_url |-> NoneVal, api_key |-> "sk-2"],
     [name |-> "hf", type |-> "api", provider |-> NoneVal,
      api_url |-> "https://api-inference.huggingface.co/models/m", api_key |-> "hf-3",
      model |-> "m"],
     [name |-> "hf", type |-> "api", api_key |-> "hf-3"],
     [name |-> "api", type |-> "api", api_url |-> NoneVal, api_key |-> "k"],
     [name |-> "claude", type |-> "api", provider |-> "anthropic", api_url |-> NoneVal],
     [name |-> "api", type |-> "api", api_url |-> "https://llm.example.com/v1"],
     [name |-> "loc", type |-> "local", path_or_url |-> "/models/local-model.bin"],
     [name |-> "loc", type |-> "local", model_path |-> "/models/local-model.bin"],
     [name |-> "odd", type |-> "remote", provider |-> "OpenAI"],
     [name |-> "none", type |-> NoneVal],
     EmptyDict}

QueryPrompts == {"Summarize the case."}

QueryEnvs == [import_ok : BOOLEAN, backend : BackendOutcomes]

\* a call about to be made: the arguments and the backend's behaviour are chosen
InitQuery ==
    /\ kb = NewKnowledgeBase
    /\ active_profile_id = NoneVal
    /\ uuid_count = 0
    /\ backup_file = [status |-> "missing", data |-> EmptyDict]
    /\ deleted_ids = {}
    /\ audit_log = <<>>
    /\ threads = NoThreads
    /\ tm = NewTrainingManager
    /\ \E llm \in QueryConfigs, prompt \in QueryPrompts, env \in QueryEnvs :
           ret = Call("pending", "run_llm_query", NoneVal,
                      [llm |-> llm, prompt |-> prompt, env |-> env],
                      "none", EmptyDict, FALSE)

run_llm_query_call ==
    /\ ret.verb = "pending"
    /\ LET r == run_llm_query(ret.arg.llm, ret.arg.prompt, ret.arg.env)
       IN  ret' = [ret EXCEPT !.verb = "run_llm_query", !.exc = r.exc,
                              !.ok = (r.exc = "none"), !.val = r]
    /\ UNCHANGED <<kb, active_profile_id, uuid_count, backup_file, deleted_ids, audit_log, threads, tm>>

NextQuery == run_llm_query_call

SpecQuery == InitQuery /\ [][NextQuery]_vars

(***************************************************************************)
(* The audit logger (audit.py) and the repository layer (repository.py).   *)
(***************************************************************************)
\* the log file opened for writing instead of appending: the event replaces the log
log_audit_event_rewrites(log, event_type, user, details) ==
    LET m1 == "[AUDIT] " \o event_type
        m2 == IF user # NoneVal /\ user # "" THEN m1 \o " | user=" \o user ELSE m1
        m3 == IF ~IsNone(details) /\ DOMAIN details # {}
              THEN m2 \o " | details=" \o Str(PyDict(details)) ELSE m2
    IN  <<m3>>

\* the log after log_audit_event(event_type, user, details); user is NoneVal or a
\* name, details NoneDict or a dict.  logging.FileHandler opens LOG_FILE for
\* appending and writes each message on a line of its own, after the time and
\* the level; audit_log holds the messages of the lines in file order
log_audit_event(log, event_type, user, details) ==
    LET m1 == "[AUDIT] " \o event_type
        m2 == IF user # NoneVal /\ user # "" THEN m1 \o " | user=" \o user ELSE m1
        m3 == IF ~IsNone(details) /\ DOMAIN details # {}
              THEN m2 \o " | details=" \o Str(PyDict(details)) ELSE m2
    IN  Append(log, m3)

\* [x for x in lst if keep(x)], for the three filters below
RECURSIVE FilterTag(_, _, _)
FilterTag(lst, field, tag) ==
    IF lst = <<>> THEN <<>>
    ELSE LET rest == FilterTag(Tail(lst), field, tag)
         IN  IF field \in DOMAIN Head(lst) /\ Contains(Head(lst)[field], tag)
             THEN <<Head(lst)>> \o rest ELSE rest

RECURSIVE FilterType(_, _)
FilterType(lst, filter_type) ==
    IF lst = <<>> THEN <<>>
    ELSE LET rest == FilterType(Tail(lst), filter_type)
         IN  IF Get(Head(lst), "type") = filter_type THEN <<Head(lst)>> \o rest ELSE rest

\* list_documents(filter_type): a new list
list_documents(k, filter_type) ==
    IF filter_type # NoneVal /\ filter_type # ""
    THEN FilterType(k.documents, filter_type) ELSE k.documents

\* the filters of get_cases and get_documents over a listing
tag_filters(listing, ethical_tag, guideline_id) ==
    LET l1 == IF ethical_tag # NoneVal /\ ethical_tag # ""
              THEN FilterTag(listing, "ethical_tags", ethical_tag) ELSE listing
    IN  IF guideline_id # NoneVal /\ guideline_id # ""
        THEN FilterTag(l1, "ethical_guideline_ids", guideline_id) ELSE l1

Listed(verb, coll, arg, val) ==
    /\ ret' = Call(verb, coll, NoneVal, arg, "none", val, TRUE)
    /\ UNCHANGED <<kb, active_profile_id, uuid_count, backup_file, deleted_ids, audit_log, threads, tm>>

get_cases(ethical_tag, guideline_id) ==
    Listed("get_cases", "cases", [ethical_tag |-> ethical_tag, guideline_id |-> guideline_id],
           tag_filters(list_cases(kb), ethical_tag, guideline_id))

get_documents(ethical_tag, guideline_id) ==
    Listed("get_documents", "documents",
           [ethical_tag |-> ethical_tag, guideline_id |-> guideline_id],
           tag_filters(list_documents(kb, NoneVal), ethical_tag, guideline_id))

list_documents_call(filter_type) ==
    Listed("list_documents", "documents", [filter_type |-> filter_type],
           list_documents(kb, filter_type))

add_case(case, ethical_tags, ethical_guideline_ids) ==
    create_case(case, ethical_tags, ethical_guideline_ids)

add_document(doc, ethical_tags, ethical_guideline_ids) ==
    create_document(doc, ethical_tags, ethical_guideline_ids)

(***************************************************************************)
(* The store under the repository layer's calls and the document and case  *)
(* updates and deletes.                                                    *)
(***************************************************************************)
CasePayloads ==
    {[case_number |-> "24-001", title |-> "State v. Doe", text |-> "Arraignment",
      client |-> "Acme"],
     [title |-> "No number"]}

RepoDocumentPayloads ==
    {[title |-> "Intake", text |-> "Client SSN on file"],
     [title |-> "No text"]}

CasePatches == {[client |-> "Zed"]}

RepoDocumentPatches == {[text |-> "DOB 1990"]} \cup IdPatches

\* the <<ethical_tag, guideline_id>> arguments of a listing
FilterArgs == {<<NoneVal, NoneVal>>, <<"privileged", "g1">>}

TypeArgs == {NoneVal, "case"}

NextRepo ==
    \/ \E p \in CasePayloads : add_case(p, NoneVal, NoneVal)
    \/ \E i \in IdArgs(kb.cases), u \in CasePatches : update_case(i, u)
    \/ \E p \in RepoDocumentPayloads, t \in EthicsArgs : add_document(p, t[1], t[2])
    \/ \E i \in IdArgs(kb.documents), u \in RepoDocumentPatches : update_document(i, u)
    \/ \E i \in IdArgs(kb.documents) : delete_document(i)
    \/ \E f \in FilterArgs : get_cases(f[1], f[2])
    \/ \E f \in FilterArgs : get_documents(f[1], f[2])
    \/ \E f \in TypeArgs : list_documents_call(f)

SpecRepo == Init /\ [][NextRepo]_vars

(***************************************************************************)
(* Statutes and cases with the documents that mirror them, under the       *)
(* operations on the three collections.                                    *)
(***************************************************************************)
StatutePayloads ==
    {[section |-> "39-13-101", title |-> "Assault", text |-> "A person commits assault who"],
     [title |-> "No section"]}

StatutePatches == {[text |-> "Amended"]} \cup IdPatches

\* updates of a document: its text, its type tag, its id
MirrorPatches == {[text |-> "Superseded"], [type |-> "memo"]} \cup IdPatches

NextMirror ==
    \/ \E p \in StatutePayloads : create_statute(p, NoneVal, NoneVal)
    \/ \E i \in IdArgs(kb.statutes), u \in StatutePatches : update_statute(i, u)
    \/ \E p \in CasePayloads : create_case(p, NoneVal, NoneVal)
    \/ \E i \in IdArgs(kb.cases), u \in CasePatches : update_case(i, u)
    \/ \E p \in RepoDocumentPayloads : create_document(p, NoneVal, NoneVal)
    \/ \E i \in IdArgs(kb.documents), u \in MirrorPatches : update_document(i, u)
    \/ \E i \in IdArgs(kb.documents) : delete_document(i)

SpecMirror == Init /\ [][NextMirror]_vars

(***************************************************************************)
(* The TrainingManager (training.py).  A model is the dict train_model     *)
(* records; whether the file load_model is given exists is an input.       *)
(***************************************************************************)
MaxVersions == 3

\* the version list train_model appended one more entry to without counting it
train_model_counts_after(model_type, params) ==
    LET model == [type |-> model_type, params |-> params,
                  trained_on |-> Len(tm.training_data)]
        versions == GetOr(tm.model_versions, model_type, <<>>)
    IN  /\ Len(versions) < MaxVersions
        /\ tm' = [tm EXCEPT
                    !.models = Put(@, model_type, model),
                    !.model_versions =
                        Put(@, model_type,
                            Append(versions, [model |-> model, version |-> Len(versions) + 2]))]
        /\ ret' = Call("train_model", model_type, NoneVal, EmptyDict, "none", model, TRUE)
        /\ UNCHANGED <<kb, active_profile_id, uuid_count, backup_file, deleted_ids,
                       audit_log, threads>>

\* setdefault(model_type, []) yields the type's list, created empty when the type
\* is new; the entry's version is that list's length before the append, plus one
train_model(model_type, params) ==
    LET model == [type |-> model_type, params |-> params,
                  trained_on |-> Len(tm.training_data)]
        versions == GetOr(tm.model_versions, model_type, <<>>)
    IN  /\ Len(versions) < MaxVersions
        /\ tm' = [tm EXCEPT
                    !.models = Put(@, model_type, model),
                    !.model_versions =
                        Put(@, model_type,
                            Append(versions, [model |-> model, version |-> Len(versions) + 1]))]
        /\ ret' = Call("train_model", model_type, NoneVal, EmptyDict, "none", model, TRUE)
        /\ UNCHANGED <<kb, active_profile_id, uuid_count, backup_file, deleted_ids,
                       audit_log, threads>>

\* the example is appended to training_data and stored as feedback in the store
\* (kb.create_feedback: the payload has every field validate_feedback asks for)
collect_training_example(data_type, data, label) ==
    LET example == [data_type |-> data_type, data |-> data, label |-> label]
        feedback == Put(Put(example, "source", "training"), "id", uuid4(uuid_count))
    IN  /\ uuid_count + 1 <= MaxIds
        /\ tm' = [tm EXCEPT !.training_data = Append(@, example)]
        /\ kb' = [kb EXCEPT !.feedback = Append(@, feedback)]
        /\ uuid_count' = uuid_count + 1
        /\ ret' = Call("collect_training_example", data_type, NoneVal, example,
                       "none", EmptyDict, TRUE)
        /\ UNCHANGED <<active_profile_id, backup_file, deleted_ids, audit_log, threads>>

\* the model pickled in the file load_model reads
PickledModel == [type |-> "dummy_model", params |-> NoneDict, trained_on |-> 0]

\* os.path.exists(path) is the input exists; None (EmptyDict) when it is false
load_model(model_type, exists) ==
    /\ tm' = IF exists THEN [tm EXCEPT !.models = Put(@, model_type, PickledModel)] ELSE tm
    /\ ret' = Call("load_model", model_type, NoneVal, EmptyDict, "none",
                   IF exists THEN PickledModel ELSE EmptyDict, exists)
    /\ UNCHANGED <<kb, active_profile_id, uuid_count, backup_file, deleted_ids,
                   audit_log, threads>>

\* list(self.models.keys())
list_models ==
    /\ ret' = Call("list_models", "models", NoneVal, EmptyDict, "none",
                   [keys |-> DOMAIN tm.models], TRUE)
    /\ UNCHANGED <<kb, active_profile_id, uuid_count, backup_file, deleted_ids,
                   audit_log, threads, tm>>

\* self.model_versions.get(model_type, [])
list_model_versions(model_type) ==
    /\ ret' = Call("list_model_versions", model_type, NoneVal, EmptyDict, "none",
                   GetOr(tm.model_versions, model_type, <<>>), TRUE)
    /\ UNCHANGED <<kb, active_profile_id, uuid_count, backup_file, deleted_ids,
                   audit_log, threads, tm>>

ModelTypes == {"dummy_model", "classifier"}

\* model_type, params
TrainCalls == {<<"dummy_model", NoneDict>>, <<"classifier", [epochs |-> "3"]>>}

NextTraining ==
    \/ \E c \in TrainCalls : train_model(c[1], c[2])
    \/ collect_training_example("case", [title |-> "Test"], "relevant")
    \/ \E m \in ModelTypes, x \in BOOLEAN : load_model(m, x)
    \/ list_models
    \/ \E m \in ModelTypes : list_model_versions(m)

SpecTraining == Init /\ [][NextTraining]_vars

(***************************************************************************)
(* The audit logger called between operations of the store and of the      *)
(* backup.                                                                 *)
(***************************************************************************)
MaxEvents == 3

\* event_type, user, details
AuditCalls ==
    {<<"ETHICAL_MODE_CHANGE", "admin", [from |-> "standard"]>>,
     <<"SENSITIVE_DATA_ACCESS", NoneVal, NoneDict>>,
     <<"ETHICAL_WARN_OVERRIDE", "", EmptyDict>>}

log_audit_event_call(event_type, user, details) ==
    /\ Len(audit_log) < MaxEvents
    /\ audit_log' = log_audit_event(audit_log, event_type, user, details)
    /\ ret' = Call("log_audit_event", "audit", NoneVal, [event_type |-> event_type],
                   "none", EmptyDict, TRUE)
    /\ UNCHANGED <<kb, active_profile_id, uuid_count, backup_file, deleted_ids, threads, tm>>

NextAudit ==
    \/ \E a \in AuditCalls : log_audit_event_call(a[1], a[2], a[3])
    \/ \E p \in ClientPayloads : create_client(p, NoneVal, NoneVal)
    \/ \E w \in BOOLEAN : save_to_file(kb_backup_file, w)
    \/ \E f \in FileNames : load_from_file(f)

SpecAudit == Init /\ [][NextAudit]_vars

(***************************************************************************)
(* Properties.                                                             *)
(***************************************************************************)
\* the record collections the create/update/delete calls of Spec act on
RecordKinds == {"documents", "clients", "case_files", "contracts", "internal_docs"}

\* the validator of a kind accepts d
Validates(coll, d) ==
    CASE coll = "documents" -> validate_document(d)
      [] coll = "clients" -> validate_client(d)
      [] coll = "case_files" -> validate_case_file(d)
      [] coll = "contracts" -> validate_contract(d)
      [] coll = "internal_docs" -> validate_internal_doc(d)

\* read(K, id): the record of K's collection found under the id, as read_document does
Read(k, coll, id) ==
    IF coll = "documents" THEN read_document(k, id)
    ELSE IF IndexOfId(k[coll], id) = 0 THEN EmptyDict ELSE k[coll][IndexOfId(k[coll], id)]

\* the ids of a collection, in list order
IdSeq(lst) == [i \in 1..Len(lst) |-> Get(lst[i], "id")]

\* the positions of the configurations flagged default
Defaults(k) == {i \in 1..Len(k.llms) : IsDefault(k.llms[i])}

\* C1: a create call of any kind whose payload satisfies the kind's validator
\* succeeds: it returns a record with a store-assigned id, the kind's collection
\* grows by exactly one, and reading the kind under that id yields the payload
\* (with the tags passed) plus the id.
C1_CreateOfValidPayloadSucceeds ==
    [][(ret'.verb = "create" /\ ret'.coll \in RecordKinds /\ Validates(ret'.coll, ret'.arg))
        => /\ ret'.exc = "none"
           /\ "id" \in DOMAIN ret'.val
           /\ ret'.val.id \notin IdsOf(kb[ret'.coll])
           /\ Len(kb'[ret'.coll]) = Len(kb[ret'.coll]) + 1
           /\ Read(kb', ret'.coll, ret'.val.id)
                = Put(_add_ethics_fields(ret'.arg, ret'.tags[1], ret'.tags[2]),
                      "id", ret'.val.id)]_vars

\* C2: a create call rejected with a validation error changes no collection.
C2_RejectedCreateChangesNothing ==
    [][(ret'.verb = "create" /\ ret'.exc = "ValueError") => kb' = kb]_vars

\* C3: an update whose merged record is invalid is rejected with the store left
\* as it was, and every stored record satisfies its kind's validator.
C3_UpdateValidatesBeforeMutation ==
    [][/\ (ret'.verb = "update" /\ ret'.exc = "ValueError") => kb' = kb
       /\ \A c \in RecordKinds : \A i \in 1..Len(kb'[c]) : Validates(c, kb'[c][i])]_vars

\* C4: an update never changes the id of a stored record, even when the patch
\* carries an 'id' key: the ids of the collection, position by position, are
\* the same after the call.
C4_UpdateKeepsIds ==
    [][ret'.verb = "update" => \A c \in RecordKinds : IdSeq(kb'[c]) = IdSeq(kb[c])]_vars

\* C5: no two records of a collection share an id, and an id a delete removed
\* from a collection is carried by no record of it afterwards.
C5_IdsUniqueAndNeverReused ==
    \A c \in RecordKinds :
        /\ Cardinality(IdsOf(kb[c])) = Len(kb[c])
        /\ \A id \in IdsOf(kb[c]) : <<c, id>> \notin deleted_ids

\* C6: a snapshot restored into a store (the running one, or the new one of the
\* next session) gives a store identical to the one the snapshot was taken of,
\* in every collection, users and guideline records included.
C6_SaveLoadRoundTrip ==
    [][(/\ ret.verb = "save" /\ ret.exc = "none"
        /\ ret'.verb \in {"load", "startup"} /\ ret'.coll = kb_backup_file)
        => (kb' = kb /\ active_profile_id' = active_profile_id)]_vars

\* C7: a restore that fails leaves the in-memory store exactly as it was.
C7_FailedRestoreKeepsState ==
    [][(ret'.verb = "load" /\ ret'.exc # "none")
        => (kb' = kb /\ active_profile_id' = active_profile_id)]_vars

\* C8: after a successful restore every collection equals the sequence the
\* source holds under its key, and is empty when the key is absent.
C8_RestoreReplacesEveryCollection ==
    [][(ret'.verb \in {"load", "startup"} /\ ret'.exc = "none")
        => \A a \in Attrs : kb'[a] = LoadedList(ReadFile(ret'.coll).data, a)]_vars

\* C9: after every create_llm, update_llm, delete_llm and set_default_llm call
\* that takes effect, exactly one provider configuration has is_default true.
C9_ExactlyOneDefault ==
    [][ret'.verb \in {"create", "update", "delete", "set_default"} /\ ret'.ok
        => Cardinality(Defaults(kb')) = 1]_vars

\* C10: set_default_llm on the id of an existing configuration B, called while
\* another configuration A is default, leaves exactly one configuration default,
\* namely B, and get_default_llm returns B.
C10_SetDefaultMovesTheDefault ==
    [][(/\ ret'.verb = "set_default"
        /\ IndexOfId(kb.llms, ret'.id) # 0
        /\ Defaults(kb) \ {IndexOfId(kb.llms, ret'.id)} # {})
        => /\ Defaults(kb') = {IndexOfId(kb.llms, ret'.id)}
           /\ get_default_llm(kb') = kb'.llms[IndexOfId(kb.llms, ret'.id)]]_vars

\* the rules in registration order, and for each whether it applies to an action
\* type and what it yields on its own
RuleOrder == <<"confidentiality", "conflict_of_interest", "unauthorized_practice">>

Applicable(rule, action_type) ==
    CASE rule = "confidentiality" -> TRUE
      [] rule = "conflict_of_interest" ->
            action_type \in {"create_client", "update_client", "create_case", "update_case"}
      [] rule = "unauthorized_practice" ->
            action_type \in {"create_case", "update_case", "legal_action"}

Outcome(rule, a) ==
    LET ctx == IF IsNone(a.context) THEN EmptyDict ELSE a.context
    IN  CASE rule = "confidentiality" -> check_confidentiality(a.data)
          [] rule = "conflict_of_interest" -> check_conflict_of_interest(a.data, ctx)
          [] rule = "unauthorized_practice" -> check_unauthorized_practice(a.user, ctx)

\* the positions in RuleOrder of the applicable rules that yield the result
Firing(result, action_type, a) ==
    {i \in 1..Len(RuleOrder) :
        Applicable(RuleOrder[i], action_type) /\ Outcome(RuleOrder[i], a)[1] = result}

\* C11: the verdict of check_ethics has the highest severity among the applicable
\* rules that fire: block when any of them blocks, warn only when none blocks and
\* one warns, pass otherwise.
C11_VerdictIsMostSevere ==
    ret.verb = "check_ethics" =>
        ret.val.result =
            IF Firing("block", ret.coll, ret.arg) # {} THEN "block"
            ELSE IF Firing("warn", ret.coll, ret.arg) # {} THEN "warn"
            ELSE "pass"

\* a warning rule and a blocking rule fired in the same evaluation
C11_Witness ==
    /\ ret.verb = "check_ethics"
    /\ Firing("block", ret.coll, ret.arg) # {}
    /\ Firing("warn", ret.coll, ret.arg) # {}
    /\ ret.val.result = "block"

\* C12: when several applicable rules fire with the verdict's severity, the
\* verdict carries the explanation and the rule reference of the one that comes
\* first in registration order.
C12_TieGoesToFirstRegistered ==
    ret.verb = "check_ethics" /\ ret.val.result # "pass" =>
        LET same == Firing(ret.val.result, ret.coll, ret.arg)
            first == CHOOSE i \in same : \A j \in same : i <= j
        IN  /\ same # {}
            /\ ret.val.rule = ABA_RULES[RuleOrder[first]].rule
            /\ ret.val.explanation = Outcome(RuleOrder[first], ret.arg)[2]

\* conflict of interest and unauthorized practice both block; the verdict is the
\* conflict's
C12_Witness ==
    /\ ret.verb = "check_ethics"
    /\ Firing("block", ret.coll, ret.arg) = {2, 3}
    /\ ret.val.rule = "ABA Model Rule 1.7"

\* a text carrying an error marker: bracketed, naming an error
HasErrorMarker(text) ==
    /\ text # ""
    /\ CharAt(text, 1) = "["
    /\ \/ Contains(text, "Error") \/ Contains(text, "error")
       \/ Contains(text, "Unknown")
       \/ Contains(text, "not installed")

\* C13: run_llm_query never raises to its caller: for every provider
\* configuration, absent and null fields included, and every prompt it returns a
\* (text, explain) pair.
C13_RunQueryNeverRaises ==
    ret.verb = "run_llm_query" =>
        /\ ret.exc = "none"
        /\ ret.val.text # NoneVal
        /\ ret.val.explain # NoneVal

\* C14: whenever run_llm_query returns without the backend's generated text, the
\* returned text carries an error marker and the note is the neutral one; a
\* model-identifying note comes only with a text extracted from the response.
C14_FailureGivesMarkerAndNeutralNote ==
    ret.verb = "run_llm_query" /\ ret.exc = "none" =>
        /\ ret.val.text # GeneratedText =>
               HasErrorMarker(ret.val.text) /\ ret.val.explain = NoExplain
        /\ ret.val.explain # NoExplain =>
               ret.arg.env.backend = "text" /\ ret.val.text = GeneratedText

\* the sessions a caller acts in: the acting user and the context of the action
GateSessions ==
    {[user |-> NoneDict, context |-> [adverse_parties |-> <<"Acme">>]],
     [user |-> [jurisdictions |-> <<"TN">>], context |-> [jurisdiction |-> "KY"]]}

\* a call of a mutating store operation, the action type the rule engine knows it
\* by, and the data it submits
IsStoreCall(r) == r.verb \in {"create", "update", "delete"}

\* the store operation was invoked and returned
Ran(r) == IsStoreCall(r) /\ r.exc = "none"

ActionTypeOf(r) ==
    r.verb \o (CASE r.coll = "cases" -> "_case"
                 [] r.coll = "documents" -> "_document"
                 [] r.coll = "clients" -> "_client"
                 [] OTHER -> "_record")

SubmittedData(r) == PyDict(IF r.verb = "delete" THEN [id |-> r.id] ELSE r.arg)

GateVerdict(r, s) == check_ethics(SubmittedData(r), ActionTypeOf(r), s.user, s.context)

\* this step appends an audit event of the type to the audit log
Emitted(event_type) ==
    /\ Len(audit_log') = Len(audit_log) + 1
    /\ Contains(audit_log'[Len(audit_log')], "[AUDIT] " \o event_type)

\* C15: a mutating store operation whose verdict is block is never invoked: every
\* operation that runs on the store has another verdict, in every session.
C15_BlockedActionNeverRuns ==
    [][\A s \in GateSessions :
          Ran(ret') => GateVerdict(ret', s).result # "block"]_vars

\* C17: a mutating store operation whose verdict is warn runs only after an
\* explicit override, which emits ETHICAL_WARN_OVERRIDE before the operation.
C17_WarnedActionRunsOnlyAfterOverride ==
    [][\A s \in GateSessions :
          Ran(ret') /\ GateVerdict(ret', s).result = "warn"
              => Emitted("ETHICAL_WARN_OVERRIDE")]_vars

\* a record with the id is in the list
HasId(lst, the_id) == \E j \in 1..Len(lst) : lst[j].id = the_id

\* C18: delete returns true exactly when a record with the id was in the
\* collection; it then removes that record and no other, after which the id is
\* not found (so a second delete returns false); a delete that returns false
\* raises nothing and leaves every collection unchanged.
C18_DeleteRemovesExactlyTheRecord ==
    [][ret'.verb = "delete" =>
          LET c == ret'.coll
              the_id == ret'.id
          IN  /\ ret'.exc = "none"
              /\ ret'.ok <=> HasId(kb[c], the_id)
              /\ ret'.ok =>
                    /\ \E j \in 1..Len(kb[c]) :
                           kb[c][j].id = the_id /\ kb'[c] = DelAt(kb[c], j)
                    /\ \A a \in Attrs \ {c} : kb'[a] = kb[a]
                    /\ ~HasId(kb'[c], the_id)
              /\ ~ret'.ok => kb' = kb]_vars

\* C19: an update of a stored record with an empty patch reports the record as
\* found and leaves the record and every collection unchanged.
C19_EmptyPatchIsNoOp ==
    [][ret'.verb = "update" /\ DOMAIN ret'.arg = {} /\ HasId(kb[ret'.coll], ret'.id) =>
          /\ ret'.exc = "none"
          /\ ret'.ok
          /\ kb' = kb]_vars

\* the elements of lst at the positions in S, in the order of lst
RECURSIVE Pick(_, _, _)
Pick(lst, S, j) ==
    IF j > Len(lst) THEN <<>>
    ELSE (IF j \in S THEN <<lst[j]>> ELSE <<>>) \o Pick(lst, S, j + 1)

IsSubSequence(sub, lst) == \E S \in SUBSET (1..Len(lst)) : sub = Pick(lst, S, 1)

IsPrefix(pre, lst) == Len(pre) <= Len(lst) /\ SubSeq(lst, 1, Len(pre)) = pre

ListVerbs == {"get_cases", "get_documents", "list_documents"}

\* C20: the records of every collection stay in creation order: a create puts
\* the new record after the ones already there, an update leaves every record at
\* its position, a delete keeps the remaining ones in their order; a filtered
\* listing is a sub-sequence of the collection in that order, an unfiltered one is
\* the collection, and listing changes no collection.
C20_ListKeepsInsertionOrder ==
    [][/\ ret'.verb = "create" => \A c \in Attrs : IsPrefix(kb[c], kb'[c])
       /\ ret'.verb = "update" =>
              \A c \in Attrs :
                  /\ Len(kb'[c]) = Len(kb[c])
                  /\ \A j \in 1..Len(kb[c]) :
                         \/ kb'[c][j] = kb[c][j]
                         \/ c = ret'.coll /\ kb'[c][j] = Merge(kb[c][j], ret'.arg)
       /\ ret'.verb = "delete" =>
              \A c \in Attrs :
                  kb'[c] = kb[c] \/ \E j \in 1..Len(kb[c]) : kb'[c] = DelAt(kb[c], j)
       /\ ret'.verb \in ListVerbs =>
              /\ kb' = kb
              /\ IsSubSequence(ret'.val, kb[ret'.coll])
              /\ (\A k \in DOMAIN ret'.arg : ret'.arg[k] = NoneVal) => ret'.val = kb[ret'.coll]
      ]_vars

\* a filtered listing returned the first and the third of three stored documents
C20_Witness ==
    /\ ret.verb = "get_documents"
    /\ ret.arg.ethical_tag # NoneVal
    /\ Len(kb.documents) = 3
    /\ ret.val = <<kb.documents[1], kb.documents[3]>>

\* the action types the conflict rule and the practice rule are run for
PartyRelationshipActions == {"create_client", "update_client", "create_case", "update_case"}

JurisdictionSensitiveActions == {"create_case", "update_case", "legal_action"}

\* C21: a verdict comes from the conflict rule only for a party-relationship
\* action and from the practice rule only for a jurisdiction-sensitive action; for
\* an action type of neither kind check_ethics never returns block, whatever the
\* payload, the user and the context.
C21_RulesRunOnlyForTheirActions ==
    ret.verb = "check_ethics" =>
        /\ ret.val.rule = ABA_RULES.conflict_of_interest.rule
               => ret.coll \in PartyRelationshipActions
        /\ ret.val.rule = ABA_RULES.unauthorized_practice.rule
               => ret.coll \in JurisdictionSensitiveActions
        /\ ret.coll \notin PartyRelationshipActions \cup JurisdictionSensitiveActions
               => ret.val.result # "block"

\* an action of neither kind was evaluated on inputs for which the conflict rule
\* and the practice rule would both block
C21_Witness ==
    /\ ret.verb = "check_ethics"
    /\ ret.coll \notin PartyRelationshipActions \cup JurisdictionSensitiveActions
    /\ Outcome("conflict_of_interest", ret.arg)[1] = "block"
    /\ Outcome("unauthorized_practice", ret.arg)[1] = "block"
    /\ ret.val.result # "block"

C23_PassIffNoRuleFires ==
    ret.verb = "check_ethics" =>
        LET fired == Firing("block", ret.coll, ret.arg) \cup Firing("warn", ret.coll, ret.arg)
        IN  /\ (ret.val.result = "pass") <=> (fired = {})
            /\ ret.val.result = "pass" => ret.val.explanation = "" /\ ret.val.rule = ""
            /\ ret.val.result # "pass" =>
                   /\ ret.val.explanation # ""
                   /\ \E i \in Firing(ret.val.result, ret.coll, ret.arg) :
                          /\ ret.val.rule = ABA_RULES[RuleOrder[i]].rule
                          /\ ret.val.explanation = Outcome(RuleOrder[i], ret.arg)[2]

\* a pass although a rule that does not apply to the action would have blocked
C23_Witness ==
    /\ ret.verb = "check_ethics"
    /\ ret.id = NoneVal
    /\ ret.val = PassVerdict
    /\ \E i \in 1..Len(RuleOrder) : Outcome(RuleOrder[i], ret.arg)[1] = "block"

C25_SetDefaultIsAtomic ==
    /\ ret.verb = "list_llms" =>
           Cardinality({i \in 1..Len(ret.val) : IsDefault(ret.val[i])}) = 1
    /\ ret.verb = "get_default_llm" => ret.val # EmptyDict
    /\ (\A t \in Threads : threads[t].op = "idle") => Cardinality(Defaults(kb)) = 1

\* C26: train_model adds to the version list of its model type exactly one
\* entry, numbered one more than the entries the list had, and leaves the other
\* types' lists as they were; no other operation changes a version list; so
\* after n calls for a type its list, as list_model_versions returns it, has n
\* entries numbered 1, 2, ..., n in order, and list_models contains the type.
C26_VersionsAreNumberedInOrder ==
    [][LET before(m) == GetOr(tm.model_versions, m, <<>>)
           after(m) == GetOr(tm'.model_versions, m, <<>>)
       IN  /\ ret'.verb = "train_model" =>
                  /\ Len(after(ret'.coll)) = Len(before(ret'.coll)) + 1
                  /\ IsPrefix(before(ret'.coll), after(ret'.coll))
                  /\ ret'.coll \in DOMAIN tm'.models
                  /\ \A m \in ModelTypes \ {ret'.coll} : after(m) = before(m)
           /\ ret'.verb # "train_model" => \A m \in ModelTypes : after(m) = before(m)
           /\ \A m \in ModelTypes : \A i \in 1..Len(after(m)) : after(m)[i].version = i
           /\ ret'.verb = "list_model_versions" => ret'.val = after(ret'.coll)
           /\ ret'.verb = "list_models" =>
                  \A m \in ModelTypes : after(m) # <<>> => m \in ret'.val.keys]_vars

\* list_model_versions returned three versions of one type while the other type
\* has one
C26_Witness ==
    /\ ret.verb = "list_model_versions"
    /\ ret.coll = "dummy_model"
    /\ Len(ret.val) = 3
    /\ ret.val[3].version = 3
    /\ Len(GetOr(tm.model_versions, "classifier", <<>>)) = 1

\* C27: for every configuration of type 'api' without a credential (api_key
\* absent, None or empty) run_llm_query returns the error-marked 'No API key
\* configured' text with the neutral note, and the backend is not called.
C27_NoCredentialGivesNoKeyText ==
    (/\ ret.verb = "run_llm_query"
     /\ Get(ret.arg.llm, "type") = "api"
     /\ ~Truthy(ret.arg.llm, "api_key"))
    => /\ ret.exc = "none"
       /\ HasErrorMarker(ret.val.text)
       /\ Contains(ret.val.text, "No API key configured")
       /\ ret.val.explain = NoExplain
       /\ ~ret.val.called

\* C28: set_default_llm with an id that matches no configuration returns False
\* and leaves every configuration, the one that was the default included, with
\* is_default false; nothing else of the configurations changes.
C28_UnknownIdClearsTheDefault ==
    [][(ret'.verb = "set_default" /\ ret'.id \notin IdsOf(kb.llms)) =>
          /\ ~ret'.ok
          /\ ret'.exc = "none"
          /\ Len(kb'.llms) = Len(kb.llms)
          /\ \A i \in 1..Len(kb.llms) : kb'.llms[i] = Put(kb.llms[i], "is_default", FALSE)]_vars

\* set_default_llm was called with an unknown id on two configurations, one of
\* them created as the default; none is the default now
C28_Witness ==
    /\ ret.verb = "set_default"
    /\ ret.id \notin IdsOf(kb.llms)
    /\ ~ret.ok
    /\ Len(kb.llms) >= 2
    /\ \E i \in 1..Len(kb.llms) : kb.llms[i].name = "APImodel"
    /\ Defaults(kb) = {}

\* C29: after every create_profile, update_profile, delete_profile and
\* set_active_profile call active_profile_id is None or the id of a profile in
\* the list; set_active_profile with an unknown id returns False and leaves
\* active_profile_id as it was; deleting the active profile clears it.
C29_ActiveProfileExists ==
    [][/\ active_profile_id' = NoneVal \/ active_profile_id' \in IdsOf(kb'.profiles)
       /\ (ret'.verb = "set_active" /\ ret'.id \notin IdsOf(kb.profiles)) =>
              ~ret'.ok /\ active_profile_id' = active_profile_id
       /\ (/\ ret'.verb = "delete"
           /\ ret'.coll = "profiles"
           /\ active_profile_id # NoneVal
           /\ ret'.id = active_profile_id) =>
              ret'.ok /\ active_profile_id' = NoneVal]_vars

\* a profile was deleted, another was updated under an 'id' in the updates and is
\* still the active one, and set_active_profile with an unknown id has just failed
C29_Witness ==
    /\ ret.verb = "set_active"
    /\ ~ret.ok
    /\ deleted_ids # {}
    /\ active_profile_id \in IdsOf(kb.profiles)
    /\ active_profile_id # "u1"
    /\ \E i \in 1..Len(kb.profiles) :
           kb.profiles[i].id = active_profile_id /\ kb.profiles[i].name = "Civil"

\* the collections whose records are mirrored, and the type tag of their mirrors
MirroredKinds == {"statutes", "cases"}

TypeTag(coll) == IF coll = "statutes" THEN "statute" ELSE "case"

====
